---------------------------- MODULE Spec2Model ----------------------------
(***************************************************************************)
(* A model of git_sort.py: sorting input lines by the upstream order of    *)
(* the commits they name.                                                  *)
(*                                                                         *)
(* Commits are the integers 1..NumCommits; the repository is a map from    *)
(* each commit to the set of its parents.  A Head is a pair                *)
(* <<head_name, rev>>.  An absent dictionary key or Python's None is the   *)
(* empty tuple and a present value v is <<v>>.                             *)
(***************************************************************************)
EXTENDS Integers, Sequences, FiniteSets, TLC

VARIABLES
  parents,   \* the commit graph of the repository: commit -> set of parents
  remotes,   \* remotes{} of _get_heads: configured url -> the commit of <remote>/master, if it has one
  HEAD,      \* the commit HEAD resolves to
  cache,     \* the shelve at ~/.cache/git-sort: [heads, history]
  pc,        \* position of the running process
  input,     \* the lines of standard input: the revision token of each line
  lines,     \* lines{}: canonical commit id -> list of (the numbers of) its lines
  heads,     \* heads[]: what _get_heads returned, the argument of _get_history
  c_heads,   \* c_heads of _get_history: cache["heads"] as the call found it
  history,   \* history{}: what _rebuild_history / _get_history returned
  gen,       \* the generator git_sort(): loop indices and the entries yielded
  builds,    \* number of _rebuild_history calls made by the _get_history call
  last,      \* heads[] of the preceding _get_history call, if it returned
  out,       \* standard output: line numbers of the lines printed
  err,       \* standard error: messages
  status,    \* exit status of the process
  procs      \* two concurrent processes inside _get_history

vars == <<parents, remotes, HEAD, cache, pc, input, lines, heads, c_heads,
          history, gen, builds, last, out, err, status, procs>>

-----------------------------------------------------------------------------
(* Bounds *)

NumCommits == 3
MaxRemotes == 2
MaxLines == 3
MaxHist == 3

Commits == 1..NumCommits

None == <<>>
Some(v) == <<v>>

Min(S) == CHOOSE m \in S : \A n \in S : m <= n

RECURSIVE SeqsUpTo(_, _)
SeqsUpTo(S, n) ==
  IF n = 0 THEN {<<>>}
  ELSE LET shorter == SeqsUpTo(S, n - 1)
       IN  shorter \cup {Append(s, e) : s \in {t \in shorter : Len(t) = n - 1}, e \in S}

Range(s) == {s[k] : k \in 1..Len(s)}

-----------------------------------------------------------------------------
(* The repository: ancestry *)

RECURSIVE Reachable(_, _)
Reachable(g, S) ==
  LET more == S \cup UNION {g[c] : c \in S}
  IN  IF more = S THEN S ELSE Reachable(g, more)

IsDag(g) == \A c \in DOMAIN g : c \notin Reachable(g, g[c])

Dags == {g \in [Commits -> SUBSET Commits] : IsDag(g)}

\* A is an ancestor of B and differs from it
ProperAncestor(g, a, b) == a \in Reachable(g, g[b])

\* Representative histories, for the runs of the whole program
ChainDown == [c \in Commits |-> IF c = NumCommits THEN {} ELSE {c + 1}]
Merge == [c \in Commits |-> IF c = NumCommits THEN Commits \ {c} ELSE {}]
Repos == {ChainDown, Merge}

-----------------------------------------------------------------------------
(* head_names and _get_heads *)

head_names == <<
  [name |-> "linux.git",
   urls |-> <<"git://git.kernel.org/pub/scm/linux/kernel/git/torvalds/linux.git",
              "https://git.kernel.org/pub/scm/linux/kernel/git/torvalds/linux.git",
              "https://kernel.googlesource.com/pub/scm/linux/kernel/git/torvalds/linux.git">>],
  [name |-> "net",
   urls |-> <<"git://git.kernel.org/pub/scm/linux/kernel/git/davem/net.git",
              "https://git.kernel.org/pub/scm/linux/kernel/git/davem/net.git",
              "https://kernel.googlesource.com/pub/scm/linux/kernel/git/davem/net.git">>],
  [name |-> "net-next",
   urls |-> <<"git://git.kernel.org/pub/scm/linux/kernel/git/davem/net-next.git",
              "https://git.kernel.org/pub/scm/linux/kernel/git/davem/net-next.git",
              "https://kernel.googlesource.com/pub/scm/linux/kernel/git/davem/net-next.git">>] >>

Urls == UNION {Range(head_names[k].urls) : k \in 1..Len(head_names)}

\* The configurations of remotes a repository can have
Masters == {None} \cup {Some(c) : c \in Commits}

RemoteConfigs ==
  UNION {[D -> Masters] : D \in {E \in SUBSET Urls : Cardinality(E) <= MaxRemotes}}

\* Result of a call: a value, or the exception that left it
Ok(v) == [ok |-> TRUE, val |-> v]
Raise(e) == [ok |-> FALSE, exc |-> e]

\* As ScanUrls, but going on to the next url when the revision is missing
RECURSIVE ScanUrls_SkipMissing(_, _, _, _)
ScanUrls_SkipMissing(rem, entry, k, hs) ==
  IF k > Len(entry.urls) THEN Ok(hs)
  ELSE LET url == entry.urls[k]
       IN  IF url \notin DOMAIN rem \/ rem[url] = None
           THEN ScanUrls_SkipMissing(rem, entry, k + 1, hs)
           ELSE ScanUrls_SkipMissing(rem, entry, k + 1,
                                     Append(hs, <<entry.name, rem[url][1]>>))

\* The inner loop "for url in urls" for one head_name, from url number k on.
\* hs is heads[] so far.
RECURSIVE ScanUrls(_, _, _, _)
ScanUrls(rem, entry, k, hs) ==
  IF k > Len(entry.urls) THEN Ok(hs)
  ELSE LET url == entry.urls[k]
       IN  IF url \notin DOMAIN rem THEN ScanUrls(rem, entry, k + 1, hs)
           ELSE IF rem[url] = None THEN Raise("Could not read revision")
           ELSE ScanUrls(rem, entry, k + 1, Append(hs, <<entry.name, rem[url][1]>>))

\* The outer loop "for head_name, urls in head_names", from entry number n on
RECURSIVE ScanHeadNames(_, _, _)
ScanHeadNames(rem, n, hs) ==
  IF n > Len(head_names) THEN Ok(hs)
  ELSE LET r == ScanUrls(rem, head_names[n], 1, hs)
       IN  IF r.ok THEN ScanHeadNames(rem, n + 1, r.val) ELSE r

\* As _get_heads, but falling back to HEAD on an empty list only
_get_heads_EmptyOnly(rem, headCommit) ==
  LET r == ScanHeadNames(rem, 1, <<>>)
  IN  IF ~r.ok THEN r
      ELSE IF r.val = <<>>
           THEN Ok(<< <<"HEAD", headCommit>> >>)
           ELSE r

_get_heads(rem, headCommit) ==
  LET r == ScanHeadNames(rem, 1, <<>>)
  IN  IF ~r.ok THEN r
      ELSE IF r.val = <<>> \/ r.val[1][1] # head_names[1].name
           THEN Ok(<< <<"HEAD", headCommit>> >>)
           ELSE r

\* Every result _get_heads can have, over the configurations of remotes
HeadsResults == {_get_heads(r, h) : r \in RemoteConfigs, h \in Commits}

-----------------------------------------------------------------------------
(* git log and _rebuild_history *)

\* As TopoReverse, without --reverse: newest first
RECURSIVE TopoOrder(_, _)
TopoOrder(g, S) ==
  IF S = {} THEN <<>>
  ELSE LET c == Min({d \in S : \A e \in S : d \notin g[e]})
       IN  <<c>> \o TopoOrder(g, S \ {c})

\* Oldest first: a commit follows all of its parents that are listed
RECURSIVE TopoReverse(_, _)
TopoReverse(g, S) ==
  IF S = {} THEN <<>>
  ELSE LET c == Min({d \in S : g[d] \cap S = {}})
       IN  <<c>> \o TopoReverse(g, S \ {c})

\* As GitLog, without the exclusions ^processed
GitLogAll(g, processed, rev) == TopoReverse(g, Reachable(g, {rev}))

\* git log --topo-order --reverse --pretty=tformat:%H ^processed... rev
GitLog(g, processed, rev) ==
  TopoReverse(g, Reachable(g, {rev}) \ Reachable(g, processed))

\* As RebuildLoop, without the test "if head_name in history"
RECURSIVE RebuildLoop_NoNameTest(_, _, _, _, _, _)
RebuildLoop_NoNameTest(g, hs, failAt, k, processed, hist) ==
  IF k > Len(hs) THEN Ok(hist)
  ELSE LET head_name == hs[k][1]
           rev == hs[k][2]
       IN  IF failAt = k THEN Raise("git log exited with an error")
           ELSE RebuildLoop_NoNameTest(g, hs, failAt, k + 1, processed \cup {rev},
                            [n \in DOMAIN hist \cup {head_name} |->
                               IF n = head_name THEN GitLog(g, processed, rev)
                               ELSE hist[n]])

\* The loop of _rebuild_history from head number k on; failAt is the number
\* of the head whose git log exits with an error (0: none does).
RECURSIVE RebuildLoop(_, _, _, _, _, _)
RebuildLoop(g, hs, failAt, k, processed, hist) ==
  IF k > Len(hs) THEN Ok(hist)
  ELSE LET head_name == hs[k][1]
           rev == hs[k][2]
       IN  IF head_name \in DOMAIN hist THEN Raise("head name is not unique")
           ELSE IF failAt = k THEN Raise("git log exited with an error")
           ELSE RebuildLoop(g, hs, failAt, k + 1, processed \cup {rev},
                            [n \in DOMAIN hist \cup {head_name} |->
                               IF n = head_name THEN GitLog(g, processed, rev)
                               ELSE hist[n]])

_rebuild_history(g, hs, failAt) == RebuildLoop(g, hs, failAt, 1, {}, <<>>)

-----------------------------------------------------------------------------
(* The cache and _get_history *)

EmptyCache == [heads |-> None, history |-> None]

UniqueNames(hs) == \A a, b \in 1..Len(hs) : a # b => hs[a][1] # hs[b][1]

SameNames(a, b) ==
  /\ Len(a) = Len(b)
  /\ \A k \in 1..Len(a) : a[k][1] = b[k][1]

\* As _get_history, but comparing the head names only
_get_history_NamesOnly(g, c, hs, failAt) ==
  IF c.heads = None \/ ~SameNames(c.heads[1], hs)
  THEN LET r == _rebuild_history(g, hs, failAt)
       IN  IF r.ok
           THEN [ok |-> TRUE, cache |-> [heads |-> Some(hs), history |-> Some(r.val)],
                 c_heads |-> c.heads, builds |-> 1, history |-> r.val]
           ELSE [ok |-> FALSE, cache |-> c,
                 c_heads |-> c.heads, builds |-> 1, exc |-> r.exc]
  ELSE [ok |-> TRUE, cache |-> c,
        c_heads |-> c.heads, builds |-> 0, history |-> c.history[1]]

\* As _get_history, but without the assignment cache["heads"] = heads
_get_history_NoStoreHeads(g, c, hs, failAt) ==
  IF c.heads # Some(hs)
  THEN LET r == _rebuild_history(g, hs, failAt)
       IN  IF r.ok
           THEN [ok |-> TRUE, cache |-> [heads |-> c.heads, history |-> Some(r.val)],
                 c_heads |-> c.heads, builds |-> 1, history |-> r.val]
           ELSE [ok |-> FALSE, cache |-> c,
                 c_heads |-> c.heads, builds |-> 1, exc |-> r.exc]
  ELSE [ok |-> TRUE, cache |-> c,
        c_heads |-> c.heads, builds |-> 0, history |-> c.history[1]]

\* As _get_history, but with cache["heads"] = heads before _rebuild_history
_get_history_StoreHeadsFirst(g, c, hs, failAt) ==
  IF c.heads # Some(hs)
  THEN LET r == _rebuild_history(g, hs, failAt)
       IN  IF r.ok
           THEN [ok |-> TRUE, cache |-> [heads |-> Some(hs), history |-> Some(r.val)],
                 c_heads |-> c.heads, builds |-> 1, history |-> r.val]
           ELSE [ok |-> FALSE, cache |-> [heads |-> Some(hs), history |-> c.history],
                 c_heads |-> c.heads, builds |-> 1, exc |-> r.exc]
  ELSE IF c.history = None
       THEN [ok |-> FALSE, cache |-> c,
             c_heads |-> c.heads, builds |-> 0, exc |-> "KeyError"]
       ELSE [ok |-> TRUE, cache |-> c,
             c_heads |-> c.heads, builds |-> 0, history |-> c.history[1]]

\* _get_history(heads) on the repository g and the cache c.  The result holds
\* the cache after the call, c_heads, the number of _rebuild_history calls
\* made and either the history returned or the exception raised.
_get_history(g, c, hs, failAt) ==
  IF c.heads # Some(hs)
  THEN LET r == _rebuild_history(g, hs, failAt)
       IN  IF r.ok
           THEN [ok |-> TRUE, cache |-> [heads |-> Some(hs), history |-> Some(r.val)],
                 c_heads |-> c.heads, builds |-> 1, history |-> r.val]
           ELSE [ok |-> FALSE, cache |-> c,
                 c_heads |-> c.heads, builds |-> 1, exc |-> r.exc]
  ELSE IF c.history = None
       THEN [ok |-> FALSE, cache |-> c,
             c_heads |-> c.heads, builds |-> 0, exc |-> "KeyError"]
       ELSE [ok |-> TRUE, cache |-> c,
             c_heads |-> c.heads, builds |-> 0, history |-> c.history[1]]

-----------------------------------------------------------------------------
(* git_sort: the generator *)

SortedEntry(head_name, value) == [head_name |-> head_name, value |-> value]

Pop(m, k) == [x \in DOMAIN m \ {k} |-> m[x]]

GenStart == [i |-> 1, j |-> 1, yielded |-> <<>>]

\* As GenReturned, with the return inside the loop over the heads
GenReturnedEarly(hs, g) == g.i > 1

\* The generator has run off the end of "for head_name, rev in heads"
GenReturned(hs, g) == g.i > Len(hs)

\* The inner loop "for commit in history[head_name]" is over for heads[i]
GenInnerDone(hs, hist, g) == g.j > Len(hist[hs[g.i][1]])

GenCommit(hs, hist, g) == hist[hs[g.i][1]][g.j]

\* As GitSortStep, with mapping[commit] in the place of mapping.pop(commit)
GitSortStepNoPop(hs, hist, m, g) ==
  IF GenInnerDone(hs, hist, g)
  THEN [lines |-> m, gen |-> [g EXCEPT !.i = g.i + 1, !.j = 1]]
  ELSE LET commit == GenCommit(hs, hist, g)
           head_name == hs[g.i][1]
       IN  IF commit \in DOMAIN m
           THEN [lines |-> m,
                 gen |-> [g EXCEPT !.j = g.j + 1,
                                   !.yielded = Append(g.yielded, SortedEntry(head_name, m[commit]))]]
           ELSE [lines |-> m, gen |-> [g EXCEPT !.j = g.j + 1]]

\* One iteration of the loops of git_sort from the position g, over the
\* mapping m: the result is the mapping and the position after it.
GitSortStep(hs, hist, m, g) ==
  IF GenInnerDone(hs, hist, g)
  THEN [lines |-> m, gen |-> [g EXCEPT !.i = g.i + 1, !.j = 1]]
  ELSE LET commit == GenCommit(hs, hist, g)
           head_name == hs[g.i][1]
       IN  IF commit \in DOMAIN m
           THEN [lines |-> Pop(m, commit),
                 gen |-> [g EXCEPT !.j = g.j + 1,
                                   !.yielded = Append(g.yielded, SortedEntry(head_name, m[commit]))]]
           ELSE [lines |-> m, gen |-> [g EXCEPT !.j = g.j + 1]]

\* The generator run to exhaustion, as "for entry in git_sort(repo, lines)" does
RECURSIVE GitSortRun(_, _, _, _)
GitSortRun(hs, hist, m, g) ==
  IF GenReturned(hs, g) THEN [lines |-> m, gen |-> g]
  ELSE LET s == GitSortStep(hs, hist, m, g)
       IN  GitSortRun(hs, hist, s.lines, s.gen)

\* "".join([line for entry in ... for line in entry.value])
RECURSIVE JoinValues(_)
JoinValues(entries) ==
  IF entries = <<>> THEN <<>>
  ELSE Head(entries).value \o JoinValues(Tail(entries))

-----------------------------------------------------------------------------
(* __main__: reading the lines and printing *)

\* The first word of an input line
Tokens ==
  {<<"sha", c>> : c \in Commits} \cup
  {<<"abbrev", 1>>, <<"not-a-hash", 0>>, <<"unknown", 0>>}

Inputs == SeqsUpTo(Tokens, MaxLines)

\* repo.revparse_single(token)
revparse_single(tok) ==
  CASE tok[1] \in {"sha", "abbrev"} -> Ok(tok[2])
    [] tok[1] = "not-a-hash" -> Raise("ValueError")
    [] OTHER -> Raise("KeyError")

\* As ReadLoop, counting the lines from 0
RECURSIVE ReadLoopFromZero(_, _, _)
ReadLoopFromZero(inp, num, m) ==
  IF num > Len(inp) THEN Ok(m)
  ELSE LET r == revparse_single(inp[num])
       IN  IF ~r.ok THEN [ok |-> FALSE, exc |-> r.exc, num |-> num - 1]
           ELSE LET h == r.val
                IN  ReadLoopFromZero(inp, num + 1,
                      IF h \in DOMAIN m
                      THEN [m EXCEPT ![h] = Append(@, num)]
                      ELSE [k \in DOMAIN m \cup {h} |-> IF k = h THEN <<num>> ELSE m[k]])

\* As ReadLoop, but with lines[h] = [line] for every line
RECURSIVE ReadLoop_Overwrite(_, _, _)
ReadLoop_Overwrite(inp, num, m) ==
  IF num > Len(inp) THEN Ok(m)
  ELSE LET r == revparse_single(inp[num])
       IN  IF ~r.ok THEN [ok |-> FALSE, exc |-> r.exc, num |-> num]
           ELSE LET h == r.val
                IN  ReadLoop_Overwrite(inp, num + 1,
                      [k \in DOMAIN m \cup {h} |-> IF k = h THEN <<num>> ELSE m[k]])

\* The loop "for line in sys.stdin.readlines()" from line number num on:
\* lines{} when every line resolved, or else the exception and its line
RECURSIVE ReadLoop(_, _, _)
ReadLoop(inp, num, m) ==
  IF num > Len(inp) THEN Ok(m)
  ELSE LET r == revparse_single(inp[num])
       IN  IF ~r.ok THEN [ok |-> FALSE, exc |-> r.exc, num |-> num]
           ELSE LET h == r.val
                IN  ReadLoop(inp, num + 1,
                      IF h \in DOMAIN m
                      THEN [m EXCEPT ![h] = Append(@, num)]
                      ELSE [k \in DOMAIN m \cup {h} |-> IF k = h THEN <<num>> ELSE m[k]])

Message(text, num) == [msg |-> text, num |-> num]
Traceback(exc) == <<Message(exc, 0)>>

\* The ways lines.values() can enumerate the keys K
Orders(K) == {o \in [1..Cardinality(K) -> K] : \A k \in K : \E n \in DOMAIN o : o[n] = k}

\* "".join([line for line_list in ... for line in line_list])
RECURSIVE JoinLists(_, _)
JoinLists(m, order) ==
  IF order = <<>> THEN <<>>
  ELSE m[Head(order)] \o JoinLists(m, Tail(order))

\* An input with one line for each commit of K
RECURSIVE OneLineEach(_)
OneLineEach(K) ==
  IF K = {} THEN <<>>
  ELSE <<<<"sha", Min(K)>>>> \o OneLineEach(K \ {Min(K)})

KeyInputs == {OneLineEach(K) : K \in SUBSET Commits}

\* The commit id an input line resolved to
CommitOf(inp, num) == revparse_single(inp[num]).val

-----------------------------------------------------------------------------
(* The Head Resolver alone: _get_heads over the configurations of remotes *)

InitHeads ==
  /\ remotes \in RemoteConfigs
  /\ HEAD \in Commits
  /\ pc = "heads"
  /\ heads = None
  /\ parents = None /\ cache = None /\ input = None /\ lines = None
  /\ c_heads = None /\ history = None /\ gen = None /\ builds = None
  /\ last = None /\ out = None /\ err = None /\ status = None /\ procs = None

GetHeads ==
  /\ pc = "heads"
  /\ LET r == _get_heads(remotes, HEAD)
     IN  /\ r.ok
         /\ heads' = Some(r.val)
         /\ pc' = "returned"
  /\ UNCHANGED <<parents, remotes, HEAD, cache, input, lines, c_heads, history,
                 gen, builds, last, out, err, status, procs>>

GetHeadsRaises ==
  /\ pc = "heads"
  /\ LET r == _get_heads(remotes, HEAD)
     IN  /\ ~r.ok
         /\ err' = Some(r.exc)
         /\ pc' = "raised"
  /\ UNCHANGED <<parents, remotes, HEAD, cache, input, lines, heads, c_heads,
                 history, gen, builds, last, out, status, procs>>

NextHeads == GetHeads \/ GetHeadsRaises

SpecHeads == InitHeads /\ [][NextHeads]_vars

-----------------------------------------------------------------------------
(* The History Builder and the generator over every repository:            *)
(* _rebuild_history(heads), then git_sort's loops over its result          *)

\* The Head Lists _get_heads returns
HeadLists == {r.val : r \in {q \in HeadsResults : q.ok}}

InitBuild ==
  /\ parents \in Dags
  /\ heads \in {Some(hs) : hs \in HeadLists}
  /\ pc = "build"
  /\ history = None /\ gen = None /\ err = None
  /\ input = None /\ lines = None
  /\ remotes = None /\ HEAD = None /\ cache = None
  /\ c_heads = None /\ builds = None /\ last = None /\ out = None
  /\ status = None /\ procs = None

RebuildHistory ==
  /\ pc = "build"
  /\ \E failAt \in 0..Len(heads[1]) :
       LET r == _rebuild_history(parents, heads[1], failAt)
       IN  IF r.ok
           THEN /\ history' = Some(r.val)
                /\ pc' = "sort"
                /\ err' = err
           ELSE /\ err' = Some(r.exc)
                /\ pc' = "raised"
                /\ history' = history
  /\ UNCHANGED <<parents, remotes, HEAD, cache, input, lines, heads, c_heads,
                 gen, builds, last, out, status, procs>>

\* git_sort's loops, run to their end over the lines of some input
GitSortAll ==
  /\ pc = "sort"
  /\ \E inp \in KeyInputs :
       LET s == GitSortRun(heads[1], history[1], ReadLoop(inp, 1, <<>>).val, GenStart)
       IN  /\ input' = Some(inp)
           /\ lines' = Some(s.lines)
           /\ gen' = Some(s.gen)
  /\ pc' = "done"
  /\ UNCHANGED <<parents, remotes, HEAD, cache, heads, c_heads, history,
                 builds, last, out, err, status, procs>>

NextBuild == RebuildHistory \/ GitSortAll

SpecBuild == InitBuild /\ [][NextBuild]_vars

-----------------------------------------------------------------------------
(* The History Cache: processes that call _get_history, one after the      *)
(* other, on one cache                                                     *)

InitCache ==
  /\ parents \in Repos
  /\ cache = EmptyCache
  /\ pc = "start"
  /\ heads = None /\ c_heads = None /\ history = None /\ builds = None
  /\ last = None /\ err = None
  /\ remotes = None /\ HEAD = None /\ input = None /\ lines = None
  /\ gen = None /\ out = None /\ status = None /\ procs = None

GetHistory ==
  /\ pc = "start"
  /\ \E hs \in HeadLists : \E failAt \in 0..Len(hs) :
       LET r == _get_history(parents, cache, hs, failAt)
       IN  /\ r.ok
           /\ cache' = r.cache
           /\ heads' = Some(hs)
           /\ c_heads' = r.c_heads
           /\ builds' = Some(r.builds)
           /\ history' = Some(r.history)
  /\ pc' = "returned"
  /\ UNCHANGED <<parents, remotes, HEAD, input, lines, gen, last, out, err,
                 status, procs>>

GetHistoryRaises ==
  /\ pc = "start"
  /\ \E hs \in HeadLists : \E failAt \in 0..Len(hs) :
       LET r == _get_history(parents, cache, hs, failAt)
       IN  /\ ~r.ok
           /\ cache' = r.cache
           /\ heads' = Some(hs)
           /\ c_heads' = r.c_heads
           /\ builds' = Some(r.builds)
           /\ err' = Some(r.exc)
  /\ pc' = "raised"
  /\ UNCHANGED <<parents, remotes, HEAD, input, lines, history, gen, last, out,
                 status, procs>>

\* The process ends; the next one finds the cache as this one left it.
\* last keeps the heads[] of the call if it returned.
ExitCache ==
  /\ pc \in {"returned", "raised"}
  /\ last' = IF pc = "returned" THEN heads ELSE None
  /\ pc' = "start"
  /\ heads' = None /\ c_heads' = None /\ history' = None /\ builds' = None
  /\ err' = None
  /\ UNCHANGED <<parents, remotes, HEAD, cache, input, lines, gen, out, status,
                 procs>>

NextCache == GetHistory \/ GetHistoryRaises \/ ExitCache

SpecCache == InitCache /\ [][NextCache]_vars

-----------------------------------------------------------------------------
(* __main__: one run of the program *)

\* The cache a run that got the heads hs has left
Record(g, hs) ==
  [heads |-> Some(hs), history |-> Some(_rebuild_history(g, hs, 0).val)]

\* The heads of the earlier run: its k-th head was at commit k
StoredLists ==
  {hs \in HeadLists : UniqueNames(hs) /\ \A k \in 1..Len(hs) : hs[k][2] = k}

\* The caches a run starts with: none, or the cache of an earlier run
StartCaches(g) == {EmptyCache} \cup {Record(g, hs) : hs \in StoredLists}

\* Every call of _get_history: the heads, and the call of git log that fails
HeadCalls == UNION {{<<hs, failAt>> : failAt \in 0..Len(hs)} : hs \in HeadLists}

\* The calls of _get_history that raise, with the repository and the cache
\* of the call
HistoryFailures ==
  UNION {UNION {{<<g, c, r>> : r \in {q \in {_get_history(g, c, p[1], p[2]) : p \in HeadCalls} : ~q.ok}}
                : c \in StartCaches(g)} : g \in Repos}

\* The calls of _get_history that return, where no call of git log fails,
\* with the repository, the cache and the heads of the call
HistoryReturns ==
  UNION {UNION {{<<g, c, hs, _get_history(g, c, hs, 0)>> :
                   hs \in {h \in HeadLists : _get_history(g, c, h, 0).ok}}
                : c \in StartCaches(g)} : g \in Repos}

\* One run of the program
Init ==
  /\ parents \in Repos
  /\ cache \in StartCaches(parents)
  /\ pc \in {"start", "dump"}  \* line 164: without or with --dump-heads
  /\ input = None /\ lines = None /\ heads = None /\ history = None
  /\ gen = None /\ out = <<>> /\ err = <<>> /\ status = None
  /\ remotes = None /\ HEAD = None /\ c_heads = None /\ builds = None
  /\ last = None /\ procs = None

\* Lines 182-200 when every line resolves
ReadLines ==
  /\ pc = "start"
  /\ \E inp \in Inputs :
       LET r == ReadLoop(inp, 1, <<>>)
       IN  /\ r.ok
           /\ input' = Some(inp)
           /\ lines' = Some(r.val)
  /\ pc' = "sort"
  /\ UNCHANGED <<parents, remotes, HEAD, cache, heads, c_heads, history, gen,
                 builds, last, out, err, status, procs>>

\* Lines 182-200 when a line does not resolve: sys.exit(1)
ReadLinesFails ==
  /\ pc = "start"
  /\ \E inp \in Inputs :
       LET r == ReadLoop(inp, 1, <<>>)
       IN  /\ ~r.ok
           /\ input' = Some(inp)
           /\ err' = <<Message(IF r.exc = "ValueError"
                               THEN "Error: did not find a commit hash on line"
                               ELSE "Error: commit hash not found in the repository on line",
                               r.num)>>
  /\ status' = Some(1)
  /\ pc' = "exit"
  /\ UNCHANGED <<parents, remotes, HEAD, cache, lines, heads, c_heads, history,
                 gen, builds, last, out, procs>>

\* Line 202: git_sort() runs to its end and the lines it yielded are printed;
\* no call of git log fails
PrintSorted ==
  /\ pc = "sort"
  /\ \E f \in HistoryReturns :
       /\ f[1] = parents /\ f[2] = cache
       /\ LET s == GitSortRun(f[3], f[4].history, lines[1], GenStart)
          IN  /\ lines' = Some(s.lines)
              /\ gen' = Some(s.gen)
              /\ out' = out \o JoinValues(s.gen.yielded)
       /\ heads' = Some(f[3])
       /\ history' = Some(f[4].history)
       /\ cache' = f[4].cache
  /\ pc' = "report"
  /\ UNCHANGED <<parents, remotes, HEAD, input, c_heads, builds, last, err,
                 status, procs>>

\* Line 202 when _get_heads raises: the exception ends the process
GitSortHeadsRaise ==
  /\ pc = "sort"
  /\ \E hr \in HeadsResults :
       /\ ~hr.ok
       /\ err' = err \o Traceback(hr.exc)
  /\ status' = Some(1)
  /\ pc' = "exit"
  /\ UNCHANGED <<parents, remotes, HEAD, cache, input, lines, heads, c_heads,
                 history, gen, builds, last, out, procs>>

\* Line 202 when _get_history raises: the exception ends the process
GitSortHistoryRaises ==
  /\ pc = "sort"
  /\ \E f \in HistoryFailures :
       /\ f[1] = parents /\ f[2] = cache
       /\ cache' = f[3].cache
       /\ err' = err \o Traceback(f[3].exc)
  /\ status' = Some(1)
  /\ pc' = "exit"
  /\ UNCHANGED <<parents, remotes, HEAD, input, lines, heads, c_heads, history,
                 gen, builds, last, out, procs>>

\* Lines 205-210: entries are left in lines{}
ReportNotFound ==
  /\ pc = "report"
  /\ DOMAIN lines[1] # {}
  /\ err' = Append(err, Message("Error: the following entries were not found upstream:", 0))
  /\ \E order \in Orders(DOMAIN lines[1]) :
       out' = out \o JoinLists(lines[1], order)
  /\ status' = Some(1)
  /\ pc' = "exit"
  /\ UNCHANGED <<parents, remotes, HEAD, cache, input, lines, heads, c_heads,
                 history, gen, builds, last, procs>>

\* Line 205 when lines{} is empty: the program ends
Finish ==
  /\ pc = "report"
  /\ DOMAIN lines[1] = {}
  /\ status' = Some(0)
  /\ pc' = "exit"
  /\ UNCHANGED <<parents, remotes, HEAD, cache, input, lines, heads, c_heads,
                 history, gen, builds, last, out, err, procs>>

\* As DumpHeads, but comparing the names of the heads only
DumpHeads_NamesOnly ==
  /\ pc = "dump"
  /\ \E hr \in HeadsResults :
       /\ hr.ok
       /\ heads' = Some(hr.val)
       /\ out' = <<"Cached heads:", cache.heads, "Current heads:", Some(hr.val),
                   IF cache.heads # None /\ SameNames(cache.heads[1], hr.val)
                   THEN "Will not rebuild history" ELSE "Will rebuild history">>
  /\ c_heads' = cache.heads
  /\ status' = Some(0)
  /\ pc' = "exit"
  /\ UNCHANGED <<parents, remotes, HEAD, cache, input, lines, history, gen,
                 builds, last, err, procs>>

\* Lines 164-180: --dump-heads
DumpHeads ==
  /\ pc = "dump"
  /\ \E hr \in HeadsResults :
       /\ hr.ok
       /\ heads' = Some(hr.val)
       /\ out' = <<"Cached heads:", cache.heads, "Current heads:", Some(hr.val),
                   IF cache.heads = Some(hr.val)
                   THEN "Will not rebuild history" ELSE "Will rebuild history">>
  /\ c_heads' = cache.heads
  /\ status' = Some(0)
  /\ pc' = "exit"
  /\ UNCHANGED <<parents, remotes, HEAD, cache, input, lines, history, gen,
                 builds, last, err, procs>>

\* --dump-heads when _get_heads raises at line 173: the exception ends the
\* process
DumpHeadsRaises ==
  /\ pc = "dump"
  /\ \E hr \in HeadsResults :
       /\ ~hr.ok
       /\ err' = err \o Traceback(hr.exc)
  /\ out' = <<"Cached heads:", cache.heads, "Current heads:">>
  /\ c_heads' = cache.heads
  /\ status' = Some(1)
  /\ pc' = "exit"
  /\ UNCHANGED <<parents, remotes, HEAD, cache, input, lines, heads, history,
                 gen, builds, last, procs>>

Next ==
  \/ ReadLines \/ ReadLinesFails
  \/ PrintSorted \/ GitSortHeadsRaise \/ GitSortHistoryRaises
  \/ ReportNotFound \/ Finish
  \/ DumpHeads \/ DumpHeadsRaises

Spec == Init /\ [][Next]_vars

-----------------------------------------------------------------------------
(* The generator alone, step by step, over any History Map whatever: the   *)
(* lists of a cache need not come from _rebuild_history                    *)

HeadNamesOf(hs) == {hs[k][1] : k \in 1..Len(hs)}

\* The loops of git_sort read the names of the heads only: one commit id
\* stands for every other
EngineHeadLists == {hs \in HeadLists : \A k \in 1..Len(hs) : hs[k][2] = 1}

RECURSIVE SumLen(_, _)
SumLen(h, names) ==
  IF names = {} THEN 0
  ELSE LET n == CHOOSE x \in names : TRUE
       IN  Len(h[n]) + SumLen(h, names \ {n})

\* The History Maps for the given head names that list MaxHist commit ids
\* at most, in any order and with any repetition
HistoryMaps(names) ==
  {h \in [names -> SeqsUpTo(Commits, MaxHist)] : SumLen(h, names) <= MaxHist}

InitEngine ==
  /\ \E hs \in EngineHeadLists :
       /\ heads = Some(hs)
       /\ history \in {Some(h) : h \in HistoryMaps(HeadNamesOf(hs))}
  /\ \E inp \in KeyInputs :
       /\ input = Some(inp)
       /\ lines = Some(ReadLoop(inp, 1, <<>>).val)
  /\ gen = Some(GenStart)
  /\ pc = "gen"
  /\ parents = None /\ remotes = None /\ HEAD = None /\ cache = None
  /\ c_heads = None /\ builds = None /\ last = None /\ out = None
  /\ err = None /\ status = None /\ procs = None

GenStepTo ==
  LET s == GitSortStep(heads[1], history[1], lines[1], gen[1])
  IN  /\ lines' = Some(s.lines)
      /\ gen' = Some(s.gen)
      /\ UNCHANGED <<parents, remotes, HEAD, cache, pc, input, heads, c_heads,
                     history, builds, last, out, err, status, procs>>

\* yield SortedEntry(head_name, mapping.pop(commit))
GenYield ==
  /\ pc = "gen"
  /\ ~GenReturned(heads[1], gen[1])
  /\ ~GenInnerDone(heads[1], history[1], gen[1])
  /\ GenCommit(heads[1], history[1], gen[1]) \in DOMAIN lines[1]
  /\ GenStepTo

\* except KeyError: pass
GenPass ==
  /\ pc = "gen"
  /\ ~GenReturned(heads[1], gen[1])
  /\ ~GenInnerDone(heads[1], history[1], gen[1])
  /\ GenCommit(heads[1], history[1], gen[1]) \notin DOMAIN lines[1]
  /\ GenStepTo

\* history[head_name] is over: the next head
GenNextHead ==
  /\ pc = "gen"
  /\ ~GenReturned(heads[1], gen[1])
  /\ GenInnerDone(heads[1], history[1], gen[1])
  /\ GenStepTo

\* return
GenReturn ==
  /\ pc = "gen"
  /\ GenReturned(heads[1], gen[1])
  /\ pc' = "done"
  /\ UNCHANGED <<parents, remotes, HEAD, cache, input, lines, heads, c_heads,
                 history, gen, builds, last, out, err, status, procs>>

NextEngine == GenYield \/ GenPass \/ GenNextHead \/ GenReturn

SpecEngine == InitEngine /\ [][NextEngine]_vars

-----------------------------------------------------------------------------
(* Two processes in _get_history at once, on the same shelve: every read   *)
(* and every write of a key is a step of its own                           *)

Procs == {1, 2}

InitRace ==
  /\ parents \in Repos
  /\ cache = EmptyCache
  /\ procs \in [Procs -> {[pc |-> "open", heads |-> hs, c_heads |-> None,
                           history |-> None] : hs \in HeadLists}]
  /\ pc = None /\ remotes = None /\ HEAD = None /\ input = None /\ lines = None
  /\ heads = None /\ c_heads = None /\ history = None /\ gen = None
  /\ builds = None /\ last = None /\ out = None /\ err = None /\ status = None

RaceFrame ==
  UNCHANGED <<parents, remotes, HEAD, pc, input, lines, heads, c_heads,
              history, gen, builds, last, out, err, status>>

\* Lines 110-114: c_heads = cache["heads"], or None
ReadCachedHeads(p) ==
  /\ procs[p].pc = "open"
  /\ procs' = [procs EXCEPT ![p].c_heads = cache.heads, ![p].pc = "compare"]
  /\ UNCHANGED cache
  /\ RaceFrame

\* Lines 116-117: the heads differ and _rebuild_history returns
Rebuild(p) ==
  /\ procs[p].pc = "compare"
  /\ procs[p].c_heads # Some(procs[p].heads)
  /\ LET r == _rebuild_history(parents, procs[p].heads, 0)
     IN  /\ r.ok
         /\ procs' = [procs EXCEPT ![p].history = Some(r.val), ![p].pc = "store heads"]
  /\ UNCHANGED cache
  /\ RaceFrame

\* Lines 116-117: the heads differ and _rebuild_history raises
RebuildRaises(p) ==
  /\ procs[p].pc = "compare"
  /\ procs[p].c_heads # Some(procs[p].heads)
  /\ ~_rebuild_history(parents, procs[p].heads, 0).ok
  /\ procs' = [procs EXCEPT ![p].pc = "raised"]
  /\ UNCHANGED cache
  /\ RaceFrame

\* Line 118: cache["heads"] = heads
StoreHeads(p) ==
  /\ procs[p].pc = "store heads"
  /\ cache' = [cache EXCEPT !.heads = Some(procs[p].heads)]
  /\ procs' = [procs EXCEPT ![p].pc = "store history"]
  /\ RaceFrame

\* Line 119: cache["history"] = history
StoreHistory(p) ==
  /\ procs[p].pc = "store history"
  /\ cache' = [cache EXCEPT !.history = procs[p].history]
  /\ procs' = [procs EXCEPT ![p].pc = "close"]
  /\ RaceFrame

\* Line 121: the heads are the cached ones, history = cache["history"]
LoadHistory(p) ==
  /\ procs[p].pc = "compare"
  /\ procs[p].c_heads = Some(procs[p].heads)
  /\ cache.history # None
  /\ procs' = [procs EXCEPT ![p].history = cache.history, ![p].pc = "close"]
  /\ UNCHANGED cache
  /\ RaceFrame

\* Line 121 when the key "history" is not there yet: KeyError
LoadHistoryRaises(p) ==
  /\ procs[p].pc = "compare"
  /\ procs[p].c_heads = Some(procs[p].heads)
  /\ cache.history = None
  /\ procs' = [procs EXCEPT ![p].pc = "raised"]
  /\ UNCHANGED cache
  /\ RaceFrame

\* Lines 122-124: cache.close(); return history
Close(p) ==
  /\ procs[p].pc = "close"
  /\ procs' = [procs EXCEPT ![p].pc = "done"]
  /\ UNCHANGED cache
  /\ RaceFrame

NextRace ==
  \E p \in Procs :
    \/ ReadCachedHeads(p)
    \/ Rebuild(p) \/ RebuildRaises(p)
    \/ StoreHeads(p) \/ StoreHistory(p)
    \/ LoadHistory(p) \/ LoadHistoryRaises(p)
    \/ Close(p)

SpecRace == InitRace /\ [][NextRace]_vars

-----------------------------------------------------------------------------
(* Properties of the History Builder (SpecBuild) *)

RevsBefore(hs, k) == {hs[j][2] : j \in 1..(k - 1)}

\* C1: for a Head List with unique link names the History Map gives each
\* link exactly the commits reachable from its head and from no earlier
\* head, each once; the lists are pairwise disjoint and together hold
\* exactly the commits reachable from the heads; and only a failed git log
\* keeps such a Head List from getting its History Map.
C1_HistoryPartition ==
  /\ (pc \in {"sort", "done"}) =>
       LET hs == heads[1]
           h == history[1]
       IN  /\ UniqueNames(hs)
           /\ DOMAIN h = HeadNamesOf(hs)
           /\ \A k \in 1..Len(hs) :
                /\ Range(h[hs[k][1]]) =
                     Reachable(parents, {hs[k][2]}) \ Reachable(parents, RevsBefore(hs, k))
                /\ Len(h[hs[k][1]]) = Cardinality(Range(h[hs[k][1]]))
           /\ \A a, b \in DOMAIN h : a # b => Range(h[a]) \cap Range(h[b]) = {}
           /\ UNION {Range(h[a]) : a \in DOMAIN h} =
                Reachable(parents, {hs[k][2] : k \in 1..Len(hs)})
  /\ (pc = "raised" /\ UniqueNames(heads[1])) =>
       err = Some("git log exited with an error")

\* A second link with commits of its own, whose head shares ancestors with
\* the first link's head
C1_Witness ==
  /\ pc = "sort"
  /\ Len(heads[1]) >= 2
  /\ history[1][heads[1][2][1]] # <<>>
  /\ Reachable(parents, {heads[1][1][2]}) \cap Reachable(parents, {heads[1][2][2]}) # {}

\* The entries yielded, as the commits of their lines
YieldedCommits == [a \in 1..Len(gen[1].yielded) |-> CommitOf(input[1], gen[1].yielded[a].value[1])]

PositionsOf(c) == {a \in DOMAIN YieldedCommits : YieldedCommits[a] = c}

InputCommits == {CommitOf(input[1], n) : n \in 1..Len(input[1])}

InHistory == UNION {Range(history[1][n]) : n \in HeadNamesOf(heads[1])}

\* C4: of two input commits that both occur in the History Map, one a
\* proper ancestor of the other, the ancestor is emitted, and emitted first,
\* within a link and across links.
C4_UpstreamOrder ==
  pc = "done" =>
    \A A, B \in InputCommits \cap InHistory :
      ProperAncestor(parents, A, B) =>
        /\ PositionsOf(A) # {}
        /\ PositionsOf(B) # {}
        /\ \A a \in PositionsOf(A), b \in PositionsOf(B) : a < b

\* An ancestor and a descendant under one link, the descendant having the
\* smaller id, and an ancestor and a descendant under two links
C4_Witness ==
  /\ pc = "done"
  /\ \E a, b \in DOMAIN YieldedCommits :
       /\ gen[1].yielded[a].head_name = gen[1].yielded[b].head_name
       /\ ProperAncestor(parents, YieldedCommits[a], YieldedCommits[b])
       /\ YieldedCommits[a] > YieldedCommits[b]
  /\ \E a, b \in DOMAIN YieldedCommits :
       /\ gen[1].yielded[a].head_name # gen[1].yielded[b].head_name
       /\ ProperAncestor(parents, YieldedCommits[a], YieldedCommits[b])

\* Two heads, the links "A" and "B" in this order, and the generator is over
TwoLinksDone == pc = "done" /\ Len(heads[1]) = 2

TipA == heads[1][1][2]
TipB == heads[1][2][2]

\* The names under which the input commits of the set S were yielded
EmittedUnder(S) ==
  {gen[1].yielded[a].head_name : a \in {b \in DOMAIN YieldedCommits : YieldedCommits[b] \in S}}

\* C12 as stated: with the heads "A" then "B", the tip of B an ancestor of
\* the tip of A, an input commit reachable from the tip of B is emitted
\* under "B" and not under "A".
C12_EmittedUnderB ==
  (TwoLinksDone /\ ProperAncestor(parents, TipB, TipA)) =>
    EmittedUnder(Reachable(parents, {TipB})) \subseteq {heads[1][2][1]}

\* C12 as amended: with the heads "A" then "B", when the tip of A is an
\* ancestor of the tip of B, the input commits reachable from the tip of B
\* and not from the tip of A are all emitted, under "B"; when the tip of B
\* is an ancestor of the tip of A, the list of "B" is empty and every input
\* commit reachable from a tip is emitted under "A".
C12_EmittedUnderLaterLink ==
  TwoLinksDone =>
    LET onlyB == Reachable(parents, {TipB}) \ Reachable(parents, {TipA})
    IN  /\ ProperAncestor(parents, TipA, TipB) =>
             /\ InputCommits \cap onlyB \subseteq Range(YieldedCommits)
             /\ EmittedUnder(onlyB) \subseteq {heads[1][2][1]}
        /\ ProperAncestor(parents, TipB, TipA) =>
             /\ history[1][heads[1][2][1]] = <<>>
             /\ InputCommits \cap Reachable(parents, {TipA}) \subseteq Range(YieldedCommits)
             /\ EmittedUnder(Commits) \subseteq {heads[1][1][1]}

\* The tip of A is an ancestor of the tip of B; a commit was emitted under
\* each of the two
C12_Witness ==
  /\ TwoLinksDone
  /\ ProperAncestor(parents, TipA, TipB)
  /\ EmittedUnder(Reachable(parents, {TipA})) = {heads[1][1][1]}
  /\ EmittedUnder(Reachable(parents, {TipB}) \ Reachable(parents, {TipA})) = {heads[1][2][1]}

-----------------------------------------------------------------------------
(* Properties of the History Cache (SpecCache) *)

\* C2: a _get_history call invokes _rebuild_history once when the cache
\* holds no heads or holds heads that differ from the given ones, in a name,
\* a commit id or the order, and not at all otherwise.
C2_RebuildIffHeadsDiffer ==
  [][(pc = "start" /\ pc' # "start") =>
       builds' = Some(IF cache.heads = None \/ cache.heads[1] # heads'[1]
                      THEN 1 ELSE 0)]_vars

\* b is a with one commit id changed
OneCommitChanged(a, b) ==
  /\ SameNames(a, b)
  /\ Cardinality({k \in 1..Len(a) : a[k][2] # b[k][2]}) = 1

\* A call that found the heads of the preceding call in the cache, with one
\* commit id changed since, and rebuilt once
C2_Witness ==
  /\ pc = "returned"
  /\ last # None
  /\ c_heads = last
  /\ Len(heads[1]) >= 2
  /\ OneCommitChanged(last[1], heads[1])
  /\ builds = Some(1)

\* C3: a call with the heads of the call before it, which returned, is a
\* cache hit: it returns, _rebuild_history is not invoked, the cache is left
\* as it was and its history is the one returned.
C3_SecondResolutionHits ==
  [][(pc = "start" /\ pc' # "start" /\ last # None /\ heads' = last) =>
       /\ pc' = "returned"
       /\ builds' = Some(0)
       /\ cache' = cache
       /\ history' = cache.history]_vars

\* The second of two calls in a row with the same heads has returned
C3_Witness ==
  /\ pc = "returned"
  /\ last # None
  /\ heads = last
  /\ builds = Some(0)
  /\ cache.heads = heads

\* The place in hs of the first head whose name an earlier head has
SecondOccurrence(hs) ==
  Min({k \in 1..Len(hs) : \E j \in 1..(k - 1) : hs[j][1] = hs[k][1]})

\* C14 as stated: a _get_history call with heads in which a name occurs
\* twice raises "head name is not unique", returns no history and leaves the
\* cache as it was.
C14_AbortsWithConfigurationError ==
  [][(pc = "start" /\ pc' # "start" /\ ~UniqueNames(heads'[1])) =>
       /\ pc' = "raised"
       /\ err' = Some("head name is not unique")
       /\ history' = None
       /\ cache' = cache]_vars

\* C14 as amended: a _get_history call with heads in which a name occurs
\* twice raises, returns no history and leaves the cache as it was;
\* _rebuild_history raises "head name is not unique" for these heads, unless
\* git log has failed for a head that comes before the second occurrence of
\* the name, and then it raises "git log exited with an error".
C14_DuplicateNameFatal ==
  [][(pc = "start" /\ pc' # "start" /\ ~UniqueNames(heads'[1])) =>
       LET hs == heads'[1]
       IN  /\ pc' = "raised"
           /\ history' = None
           /\ cache' = cache
           /\ cache'.heads # heads'
           /\ builds' = Some(1)
           /\ \E failAt \in 0..Len(hs) : err' = Some(_rebuild_history(parents, hs, failAt).exc)
           /\ \A failAt \in 0..Len(hs) :
                _rebuild_history(parents, hs, failAt) =
                  IF failAt = 0 \/ failAt >= SecondOccurrence(hs)
                  THEN Raise("head name is not unique")
                  ELSE Raise("git log exited with an error")]_vars

\* A call with two heads of one name has raised "head name is not unique"
\* and the cache still holds the record of an earlier call
C14_Witness ==
  /\ pc = "raised"
  /\ ~UniqueNames(heads[1])
  /\ heads[1][1][2] # heads[1][2][2]
  /\ err = Some("head name is not unique")
  /\ cache.heads # None /\ cache.history # None
  /\ c_heads = cache.heads

\* What _rebuild_history computes for the heads hs when no git log fails
Built(hs) == _rebuild_history(parents, hs, 0)

\* C16: after any sequence of calls of _get_history, returned or raised, the
\* cache holds no heads and no history, or heads and the history that
\* _rebuild_history computes for them; and a call that has returned, from
\* the cache or after a rebuild, has returned the history that
\* _rebuild_history computes for its heads.
C16_CacheTransparency ==
  /\ IF cache.heads = None THEN cache.history = None
     ELSE /\ Built(cache.heads[1]).ok
          /\ cache.history = Some(Built(cache.heads[1]).val)
  /\ pc = "returned" =>
       /\ Built(heads[1]).ok
       /\ history = Some(Built(heads[1]).val)

\* A call served from the cache, right after a call that raised; the heads
\* are two and the second has commits of its own
C16_Witness ==
  /\ pc = "returned"
  /\ builds = Some(0)
  /\ last = None
  /\ Len(heads[1]) >= 2
  /\ history[1][heads[1][2][1]] # <<>>

-----------------------------------------------------------------------------
(* Properties of two concurrent processes (SpecRace) *)

AllProcsOver == \A p \in Procs : procs[p].pc \in {"done", "raised"}

\* C5: when both processes are over, the record stored is the whole record
\* of one of them that wrote, and its history is the one built from its heads.
C5_FinalRecordOfOneWriter ==
  (AllProcsOver /\ cache.heads # None) =>
    /\ cache.history # None
    /\ \E p \in Procs :
         /\ procs[p].pc = "done"
         /\ cache.heads = Some(procs[p].heads)
         /\ cache.history = procs[p].history
    /\ cache.history = Some(_rebuild_history(parents, cache.heads[1], 0).val)

-----------------------------------------------------------------------------
(* Properties of the Head Resolver (SpecHeads) *)

\* The place of a head name in head_names
CatalogIndex(name) == CHOOSE n \in 1..Len(head_names) : head_names[n].name = name

\* C6: the heads returned have distinct names, in the order of head_names,
\* one for each link with a configured url.
C6_OneHeadPerLink ==
  pc = "returned" =>
    LET hs == heads[1]
    IN  /\ UniqueNames(hs)
        /\ hs[1][1] # "HEAD" =>
             \A a, b \in 1..Len(hs) :
               a < b => CatalogIndex(hs[a][1]) < CatalogIndex(hs[b][1])

\* The urls of head_names from entry n on, each with the name of its entry
RECURSIVE CatalogPairs(_)
CatalogPairs(n) ==
  IF n > Len(head_names) THEN <<>>
  ELSE [k \in 1..Len(head_names[n].urls) |->
          <<head_names[n].name, head_names[n].urls[k]>>] \o CatalogPairs(n + 1)

\* The list resolved from the catalog: a head for every configured url, in
\* the order of head_names, where every master branch resolves
Matched(rem) ==
  LET Configured(pair) == pair[2] \in DOMAIN rem
      conf == SelectSeq(CatalogPairs(1), Configured)
  IN  [k \in 1..Len(conf) |-> <<conf[k][1], rem[conf[k][2]][1]>>]

SyntheticHead == << <<"HEAD", HEAD>> >>

\* C11: when _get_heads returns, it returns the one head ("HEAD", current
\* commit) if the list resolved from the catalog is empty or does not begin
\* with the first name of head_names, and only then; otherwise it returns
\* the resolved list as it is.
C11_FallbackToHead ==
  pc = "returned" =>
    LET m == Matched(remotes)
        fallback == m = <<>> \/ m[1][1] # head_names[1].name
    IN  /\ (heads = Some(SyntheticHead)) <=> fallback
        /\ ~fallback => heads = Some(m)

\* Only urls of later links are configured: their heads are dropped for HEAD
C11_Witness ==
  /\ pc = "returned"
  /\ DOMAIN remotes # {}
  /\ DOMAIN remotes \cap Range(head_names[1].urls) = {}
  /\ Cardinality({CatalogIndex(p[1]) : p \in Range(Matched(remotes))}) = 2
  /\ heads = Some(SyntheticHead)

\* The configured urls whose remote has no master branch
MissingMaster == {url \in DOMAIN remotes : remotes[url] = None}

\* C15: _get_heads raises "Could not read revision" and returns no heads
\* when the master branch of a configured remote with a url of head_names
\* is missing, and in no other case.
C15_MissingBranchFatal ==
  /\ pc = "raised" => /\ MissingMaster # {}
                      /\ err = Some("Could not read revision")
                      /\ heads = None
  /\ pc = "returned" => MissingMaster = {}
  /\ pc = "heads" => heads = None /\ err = None

\* The first link resolves, the master of a later link is missing
C15_Witness ==
  /\ pc = "raised"
  /\ \E url \in DOMAIN remotes \cap Range(head_names[1].urls) : remotes[url] # None
  /\ MissingMaster # {}
  /\ MissingMaster \cap Range(head_names[1].urls) = {}

-----------------------------------------------------------------------------
(* Properties of the program (Spec) *)

NotFoundHeading == Message("Error: the following entries were not found upstream:", 0)

\* The numbers of the lines left in lines{}
LeftLines == UNION {Range(lines[1][k]) : k \in DOMAIN lines[1]}

\* C7: when every line resolved and entries are left in lines{}, standard
\* output holds exactly the lines git_sort yielded, in their order; the
\* lines left follow the heading on standard error and none is on standard
\* output; and the exit status is 1.
C7_NotFoundOnStderrOnly ==
  (pc = "exit" /\ gen # None /\ DOMAIN lines[1] # {}) =>
    /\ status = Some(1)
    /\ out = JoinValues(gen[1].yielded)
    /\ \A n \in LeftLines : n \notin Range(out)
    /\ err[1] = NotFoundHeading
    /\ Len(err) = 1 + Cardinality(LeftLines)

\* C13 as stated: a run with --dump-heads reads no input and exits with
\* status 0, whatever the cache holds.
C13_DumpHeadsAlwaysZero ==
  [][pc = "dump" =>
       /\ pc' = "exit"
       /\ input' = None /\ lines' = None
       /\ status' = Some(0)]_vars

\* C13 as amended: a run with --dump-heads reads no input and ends at once;
\* when _get_heads returns, the status is 0, whatever the cache holds, and
\* the last line printed is "Will not rebuild history" if the cached heads
\* equal the heads returned and "Will rebuild history" if not; when
\* _get_heads raises, the status is 1 and neither line is printed.
C13_DumpHeadsReport ==
  [][pc = "dump" =>
       /\ pc' = "exit"
       /\ input' = None /\ lines' = None
       /\ LET report == out'[Len(out')]
          IN  IF heads' # None
              THEN /\ status' = Some(0)
                   /\ err' = <<>>
                   /\ report = IF cache.heads = heads'
                               THEN "Will not rebuild history"
                               ELSE "Will rebuild history"
              ELSE /\ status' = Some(1)
                   /\ err' # <<>>
                   /\ report = "Current heads:"]_vars

\* A run with --dump-heads found cached heads with the names of the heads
\* returned and another commit id, and reported a rebuild
C13_Witness ==
  /\ pc = "exit"
  /\ input = None
  /\ status = Some(0)
  /\ c_heads # None /\ c_heads # heads
  /\ SameNames(c_heads[1], heads[1])
  /\ Len(heads[1]) >= 2
  /\ out[Len(out)] = "Will rebuild history"

\* C17: a step of the program changes the cache only where git_sort gets its
\* history and goes on, with heads that differ from the cached ones, and
\* the cache then holds these heads and the history returned; a call with
\* the cached heads, a run with --dump-heads, and a run that ends on a line
\* that does not resolve or on an exception of _get_heads or of
\* _rebuild_history leave the cache as it was.
C17_CacheFrame ==
  [][/\ cache' # cache =>
          /\ pc = "sort" /\ pc' = "report"
          /\ cache.heads # heads'
          /\ cache' = [heads |-> heads', history |-> history']
     /\ (pc' = "report" /\ pc = "sort" /\ cache.heads = heads') =>
          /\ cache' = cache
          /\ history' = cache.history
     /\ (pc' = "exit" /\ pc \in {"start", "dump", "sort"}) => cache' = cache]_vars

\* The lines were read, _rebuild_history raised for a failed git log, and the
\* cache holds the record of an earlier run
C17_Witness ==
  /\ pc = "exit"
  /\ input # None /\ lines # None
  /\ err = Traceback("git log exited with an error")
  /\ cache.heads # None /\ cache.history # None
  /\ Len(cache.heads[1]) >= 2

\* The numbers of the lines whose token does not resolve
FailingLines(inp) == {n \in 1..Len(inp) : ~revparse_single(inp[n]).ok}

\* The process is over and every line of the input had resolved
AllResolvedExit == pc = "exit" /\ input # None /\ FailingLines(input[1]) = {}

\* Every line of the input is printed once on standard output, and the
\* lines of one commit follow each other in their order in the input
PrintedOnceGrouped ==
  /\ Len(out) = Len(input[1])
  /\ Range(out) = 1..Len(input[1])
  /\ \A a, b \in 1..Len(out) :
       (a < b /\ CommitOf(input[1], out[a]) = CommitOf(input[1], out[b])) =>
         /\ out[a] < out[b]
         /\ \A k \in a..b : CommitOf(input[1], out[k]) = CommitOf(input[1], out[a])

\* C18 as stated: in a run where every line resolves, every line is printed
\* once, among the sorted lines or among the lines not found, and the lines
\* of one commit are printed together in their order in the input.
C18_LineConservation == AllResolvedExit => PrintedOnceGrouped

\* C18 as amended: in a run where every line resolves and git_sort runs to
\* its end, every line is printed once and the lines of one commit are
\* printed together in their order in the input; in a run where every line
\* resolves and _get_heads or _get_history raises, no line is printed.
C18_ConservationOrNothing ==
  AllResolvedExit =>
    IF gen # None
    THEN /\ PrintedOnceGrouped
         /\ Len(gen[1].yielded) + Cardinality(DOMAIN lines[1]) = Cardinality(InputCommits)
    ELSE /\ out = <<>>
         /\ status = Some(1)
         /\ Len(err) = 1
         /\ lines # None

\* Two lines of one commit with different tokens and a line of another
\* commit between them; lines were sorted and lines were not found
C18_Witness ==
  /\ AllResolvedExit
  /\ gen # None
  /\ Len(input[1]) = 3
  /\ input[1][1] # input[1][3]
  /\ CommitOf(input[1], 1) = CommitOf(input[1], 3)
  /\ CommitOf(input[1], 1) # CommitOf(input[1], 2)
  /\ gen[1].yielded # <<>>
  /\ DOMAIN lines[1] # {}

-----------------------------------------------------------------------------
(* Properties of the generator (SpecEngine) *)

\* The first head, in the order of heads[], whose history lists the commit
FirstLinkWith(c) ==
  Min({k \in 1..Len(heads[1]) : c \in Range(history[1][heads[1][k][1]])})

\* C8: at every step of the generator no commit has been yielded twice, a
\* commit yielded is no longer a key of the mapping, and its entry carries
\* the name of the first head whose history lists it.
C8_AtMostOnce ==
  /\ \A a, b \in DOMAIN YieldedCommits :
       a # b => YieldedCommits[a] # YieldedCommits[b]
  /\ \A a \in DOMAIN YieldedCommits :
       /\ YieldedCommits[a] \notin DOMAIN lines[1]
       /\ gen[1].yielded[a].head_name = heads[1][FirstLinkWith(YieldedCommits[a])][1]

\* A commit that was yielded is listed twice by one link and also by another
C8_Witness ==
  /\ pc = "done"
  /\ \E a \in DOMAIN YieldedCommits :
       LET c == YieldedCommits[a]
       IN  /\ \E n \in DOMAIN history[1] :
                Cardinality({k \in 1..Len(history[1][n]) : history[1][n][k] = c}) >= 2
           /\ \E n, m \in DOMAIN history[1] :
                n # m /\ c \in Range(history[1][n]) /\ c \in Range(history[1][m])

\* C9: when the generator has returned, the keys left are the input commits
\* that no history of a head lists, and the entries yielded are those of the
\* input commits that some history lists, one entry each.
C9_Exhaustion ==
  pc = "done" =>
    /\ DOMAIN lines[1] = InputCommits \ InHistory
    /\ Range(YieldedCommits) = InputCommits \cap InHistory
    /\ Len(gen[1].yielded) = Cardinality(InputCommits \cap InHistory)

\* Keys are left, a second head has yielded, and a listed commit was no key
C9_Witness ==
  /\ pc = "done"
  /\ DOMAIN lines[1] # {}
  /\ InHistory \ InputCommits # {}
  /\ Len(heads[1]) >= 2
  /\ \E a \in DOMAIN YieldedCommits :
       gen[1].yielded[a].head_name = heads[1][2][1]

=============================================================================
